---- MODULE Spec2Model ----
(***************************************************************************)
(* Model of the w3up-client facade (src/src/client.js, class Client).      *)
(*                                                                         *)
(* Client is a thin facade: every method forwards to the Agent             *)
(* (this._agent), to Base._invocationConfig or to the upload pipeline.     *)
(* The facade methods are translated from client.js.  The collaborators    *)
(* whose code is not part of client.js (the Agent, Base, the Space and     *)
(* Delegation wrappers, the upload pipeline) are modelled from their       *)
(* contracts in spec.md sections 3, 4.1, 5, 6 and 7; their definitions     *)
(* are prefixed Agent_, Base_, Pipeline_ or named after the wrapper.       *)
(***************************************************************************)
EXTENDS Integers, FiniteSets, Sequences, TLC

\* ---------------------------------------------------------------------------
\* Bounds of the model
\* ---------------------------------------------------------------------------
MaxProofs == 2        \* at most this many proofs are stored
MaxDelegations == 2   \* at most this many delegations are issued
MaxUploads == 2       \* at most this many upload invocations are counted
NumCallers == 2       \* concurrent callers of setCurrentSpace

\* ---------------------------------------------------------------------------
\* Values
\* ---------------------------------------------------------------------------
Undefined == "undefined"
AgentDID == "did:key:agent"
OtherDID == "did:key:other"
ServiceDID == "did:web:service"
SpaceDIDs == {"did:key:s1", "did:key:s2"}
NeverDID == "did:key:zz"                      \* a DID no space ever has
Names == {"docs", Undefined}                  \* createSpace(name?) inputs
StoreAdd == "store/add"                       \* StoreCapabilities.add.can
UploadAdd == "upload/add"                     \* UploadCapabilities.add.can
Top == "*"
Abilities == {StoreAdd, UploadAdd, Top}
Files == {"file1"}

DefaultAudienceMeta == [name |-> "agent", type |-> "device"]
NoAudienceMeta == [name |-> Undefined, type |-> Undefined]   \* options.audienceMeta absent
AudienceMetas == {NoAudienceMeta, [name |-> "phone", type |-> "device"]}

\* A capability is an ability over a resource.
Capabilities == [can : {StoreAdd, UploadAdd}, with : SpaceDIDs]
\* caps arguments of proofs()/delegations(): absent (given = FALSE), empty, or
\* a few capabilities
NoCaps == [given |-> FALSE, caps |-> {}]
Caps(cs) == [given |-> TRUE, caps |-> cs]
BothAdd(with) == {[can |-> StoreAdd, with |-> with], [can |-> UploadAdd, with |-> with]}
CapFilters == {NoCaps} \cup {Caps(cs) : cs \in {x \in SUBSET Capabilities : Cardinality(x) <= 1}}
                 \cup {Caps(BothAdd(d)) : d \in SpaceDIDs}

\* Delegations a caller can hand to addProof / addSpace.
ProofInputs == [id : {0}, iss : {OtherDID}, aud : {AgentDID, OtherDID},
                can : Abilities, with : SpaceDIDs, name : {Undefined}]
SpaceProofInputs == [id : {0}, iss : {OtherDID}, aud : {AgentDID},
                     can : {Top}, with : SpaceDIDs, name : {"shared"}]

VARIABLES
  spaces,        \* this._agent.spaces : Map<DID, meta>
  current,       \* this._agent.currentSpace() : DID or Undefined
  proofStore,    \* delegations held by the agent (audience = agent)
  delegStore,    \* delegations issued by the agent, with their metadata
  uploads,       \* number of invocations the upload pipeline attempted
  ret,           \* the last completed facade call: operation, argument, outcome
  pc,            \* per caller: position of an in-flight setCurrentSpace call
  arg,           \* per caller: the DID of its in-flight setCurrentSpace call
  applied,       \* DIDs written to the pointer by in-flight calls, in order
  completed,     \* DIDs of the successful setCurrentSpace calls, in completion order
  reg,           \* the registerSpace call: position, signal, claim, outcome
  selected       \* history: the DID of the last successful setCurrentSpace call

vars == <<spaces, current, proofStore, delegStore, uploads, ret, pc, arg,
          applied, completed, reg, selected>>

concVars == <<pc, arg, applied, completed>>

\* ---------------------------------------------------------------------------
\* Wrappers (space.js, delegation.js)
\* ---------------------------------------------------------------------------
\* new Space(did, meta)
Space(did, meta) == [kind |-> "space", did |-> did, name |-> meta.name, meta |-> meta]

NoSpace == [kind |-> "undefined"]

\* new AgentDelegation(root, blocks, meta)
AgentDelegation(delegation, meta) == [kind |-> "delegation", root |-> delegation, meta |-> meta]

\* ---------------------------------------------------------------------------
\* Agent (collaborator; contract of spec.md section 6)
\* ---------------------------------------------------------------------------
SpaceMeta(name) == [name |-> name]

\* Map.set(did, meta)
MapSet(map, did, meta) ==
  [d \in (DOMAIN map) \cup {did} |-> IF d = did THEN meta ELSE map[d]]

\* agent.setCurrentSpace(did): fails if the DID is unknown
Agent_setCurrentSpaceOk(did) == did \in DOMAIN spaces

\* a delegation authorizes a capability: same resource, same or wildcard ability
Authorizes(d, cap) == d.with = cap.with /\ (d.can = cap.can \/ d.can = Top)

\* filter by capabilities; empty or undefined caps return everything
Matching(ds, caps) ==
  IF ~caps.given THEN ds
  ELSE IF caps.caps = {} THEN ds
  ELSE {d \in ds : \E cap \in caps.caps : Authorizes(d, cap)}

\* agent.proofs(caps)
Agent_proofs(caps) == Matching({p \in proofStore : p.aud = AgentDID}, caps)

\* agent.delegationsWithMeta(caps)
Agent_delegationsWithMeta(caps) ==
  {e \in delegStore : e.delegation \in Matching({x.delegation : x \in delegStore}, caps)}

\* agent.addProof(proof): fails if the audience is not this agent
Agent_addProofOk(proof) == proof.aud = AgentDID

\* agent.delegate({abilities, audience, audienceMeta}): the delegation issued,
\* with the current space as the resource
Agent_delegate(audience, ability, audienceMeta) ==
  [delegation |-> [id |-> Cardinality(delegStore) + 1, iss |-> AgentDID, aud |-> audience,
                   can |-> ability, with |-> current, name |-> Undefined],
   meta |-> [audience |-> audienceMeta]]

\* ---------------------------------------------------------------------------
\* Client (src/src/client.js): pure parts
\* ---------------------------------------------------------------------------
\* currentSpace(): did ? new Space(did, spaces.get(did)) : undefined
currentSpace_nometa ==
  LET did == current
  IN IF did # Undefined THEN Space(did, SpaceMeta(Undefined)) ELSE NoSpace

currentSpace_torn ==
  LET did == current
  IN IF did # Undefined THEN Space(did, spaces[CHOOSE d \in DOMAIN spaces : TRUE]) ELSE NoSpace

currentSpace ==
  LET did == current
  IN IF did # Undefined THEN Space(did, spaces[did]) ELSE NoSpace

\* spaces(): [...agent.spaces].map(([did, meta]) => new Space(did, meta))
spacesList == {Space(did, spaces[did]) : did \in DOMAIN spaces}

\* proofs(caps)
proofs_nofilter(caps) == Agent_proofs(NoCaps)

proofs(caps) == Agent_proofs(caps)

\* delegations(caps)
delegations(caps) ==
  {AgentDelegation(e.delegation, e.meta) : e \in Agent_delegationsWithMeta(caps)}

\* options.audienceMeta ?? { name: 'agent', type: 'device' }
AudienceMetaOf_nodefault(optMeta) == optMeta

AudienceMetaOf(optMeta) == IF optMeta = NoAudienceMeta THEN DefaultAudienceMeta ELSE optMeta

Ok(op, a, v) == [op |-> op, arg |-> a, status |-> "ok", error |-> "", value |-> v]
Err(op, a, e) == [op |-> op, arg |-> a, status |-> "error", error |-> e, value |-> NoSpace]

\* ---------------------------------------------------------------------------
\* Initial state: a freshly constructed Client over an empty Agent
\* ---------------------------------------------------------------------------
Callers == 1..NumCallers

Init ==
  /\ spaces = [d \in {} |-> SpaceMeta(Undefined)]
  /\ current = Undefined
  /\ proofStore = {}
  /\ delegStore = {}
  /\ uploads = 0
  /\ ret = [op |-> "new", arg |-> Undefined, status |-> "ok", error |-> "", value |-> NoSpace]
  /\ pc = [c \in Callers |-> "idle"]
  /\ arg = [c \in Callers |-> Undefined]
  /\ applied = <<>>
  /\ completed = <<>>
  /\ selected = Undefined
  /\ reg = [pc |-> "idle", space |-> Undefined, callerSignal |-> FALSE, agentSignal |-> FALSE,
            aborted |-> FALSE, claim |-> FALSE, abortedFirst |-> FALSE,
            granted |-> FALSE, outcome |-> Undefined]

\* ---------------------------------------------------------------------------
\* Client operations, each call run to completion
\* ---------------------------------------------------------------------------
\* agent()
Agent ==
  /\ ret' = Ok("agent", Undefined, AgentDID)
  /\ UNCHANGED <<spaces, current, proofStore, delegStore, uploads, concVars, reg, selected>>

\* currentSpace()
CurrentSpace ==
  /\ ret' = Ok("currentSpace", Undefined, currentSpace)
  /\ UNCHANGED <<spaces, current, proofStore, delegStore, uploads, concVars, reg, selected>>

\* await agent.setCurrentSpace(did)
SetCurrentSpaceEffect_swallow(did) ==
  /\ current' = IF Agent_setCurrentSpaceOk(did) THEN did ELSE current
  /\ ret' = Ok("setCurrentSpace", did, Undefined)

SetCurrentSpaceEffect(did) ==
  IF Agent_setCurrentSpaceOk(did)
  THEN /\ current' = did
       /\ ret' = Ok("setCurrentSpace", did, Undefined)
  ELSE /\ current' = current
       /\ ret' = Err("setCurrentSpace", did, "Unknown-space")

SetCurrentSpace ==
  \E did \in SpaceDIDs \cup {NeverDID} :
    /\ SetCurrentSpaceEffect(did)
    /\ selected' = IF ret'.status = "ok" THEN did ELSE selected
    /\ UNCHANGED <<spaces, proofStore, delegStore, uploads, concVars, reg>>

\* spaces()
Spaces ==
  /\ ret' = Ok("spaces", Undefined, spacesList)
  /\ UNCHANGED <<spaces, current, proofStore, delegStore, uploads, concVars, reg, selected>>

\* const { did, meta } = await agent.createSpace(name); return new Space(did, meta)
CreateSpaceEffect_select(did, name) ==
  /\ spaces' = MapSet(spaces, did, SpaceMeta(name))
  /\ current' = did
  /\ ret' = Ok("createSpace", name, Space(did, SpaceMeta(name)))

CreateSpaceEffect(did, name) ==
  /\ spaces' = MapSet(spaces, did, SpaceMeta(name))
  /\ current' = current
  /\ ret' = Ok("createSpace", name, Space(did, SpaceMeta(name)))

CreateSpace ==
  \E name \in Names : \E did \in SpaceDIDs \ DOMAIN spaces :
    /\ CreateSpaceEffect(did, name)
    /\ UNCHANGED <<proofStore, delegStore, uploads, concVars, reg, selected>>

\* const { did, meta } = await agent.importSpaceFromDelegation(proof)
AddSpace ==
  \E proof \in SpaceProofInputs :
    LET meta == SpaceMeta(proof.name)
    IN /\ proof.with \notin DOMAIN spaces
       /\ spaces' = MapSet(spaces, proof.with, meta)
       /\ ret' = Ok("addSpace", proof, Space(proof.with, meta))
       /\ UNCHANGED <<current, proofStore, delegStore, uploads, concVars, reg, selected>>

\* proofs(caps)
Proofs ==
  \E caps \in CapFilters :
    /\ ret' = Ok("proofs", caps, proofs(caps))
    /\ UNCHANGED <<spaces, current, proofStore, delegStore, uploads, concVars, reg, selected>>

\* await agent.addProof(proof)
AddProofEffect_storefirst(proof) ==
  /\ proofStore' = proofStore \cup {proof}
  /\ ret' = IF Agent_addProofOk(proof) THEN Ok("addProof", proof, Undefined)
            ELSE Err("addProof", proof, "Audience-mismatch")

AddProofEffect(proof) ==
  IF Agent_addProofOk(proof)
  THEN /\ proofStore' = proofStore \cup {proof}
       /\ ret' = Ok("addProof", proof, Undefined)
  ELSE /\ proofStore' = proofStore
       /\ ret' = Err("addProof", proof, "Audience-mismatch")

AddProof ==
  \E proof \in ProofInputs :
    /\ Agent_addProofOk(proof) => Cardinality(proofStore \cup {proof}) <= MaxProofs
    /\ AddProofEffect(proof)
    /\ UNCHANGED <<spaces, current, delegStore, uploads, concVars, reg, selected>>

\* delegations(caps)
Delegations ==
  \E caps \in CapFilters :
    /\ ret' = Ok("delegations", caps, delegations(caps))
    /\ UNCHANGED <<spaces, current, proofStore, delegStore, uploads, concVars, reg, selected>>

\* createDelegation(audience, abilities, options)
CreateDelegationEffect(audience, ability, optMeta) ==
  LET audienceMeta == AudienceMetaOf(optMeta)
      issued == Agent_delegate(audience, ability, audienceMeta)
  IN /\ delegStore' = delegStore \cup {issued}
     /\ ret' = Ok("createDelegation",
                  [audience |-> audience, ability |-> ability, audienceMeta |-> optMeta],
                  AgentDelegation(issued.delegation, [audience |-> audienceMeta]))

CreateDelegation ==
  \E ability \in Abilities : \E optMeta \in AudienceMetas :
    /\ Cardinality(delegStore) < MaxDelegations
    /\ CreateDelegationEffect(OtherDID, ability, optMeta)
    /\ UNCHANGED <<spaces, current, proofStore, uploads, concVars, reg, selected>>

\* Base._invocationConfig(abilities): issuer, proofs for the abilities over the
\* current space, service audience; nothing is validated here
Base_invocationConfig(abilities) ==
  [issuer |-> AgentDID, with |-> current, audience |-> ServiceDID,
   proofs |-> Agent_proofs(Caps({[can |-> a, with |-> current] : a \in abilities}))]

\* the remote service accepts an invocation whose proofs cover every ability
Pipeline_accepts(conf, abilities) ==
  \A a \in abilities : \E p \in conf.proofs : Authorizes(p, [can |-> a, with |-> conf.with])

\* uploadFile / uploadDirectory / uploadCAR: derive the configuration, set the
\* connection, return what the pipeline returns
UploadEffect_precheck(op, content) ==
  LET conf == Base_invocationConfig({StoreAdd, UploadAdd})
  IN IF conf.proofs = {}
     THEN /\ uploads' = uploads
          /\ ret' = Err(op, content, "missing proofs")
     ELSE /\ uploads' = uploads + 1
          /\ ret' = IF Pipeline_accepts(conf, {StoreAdd, UploadAdd})
                    THEN Ok(op, content, "cid")
                    ELSE Err(op, content, "Authorization-insufficient")

UploadEffect(op, content) ==
  LET conf == Base_invocationConfig({StoreAdd, UploadAdd})
  IN /\ uploads' = uploads + 1
     /\ ret' = IF Pipeline_accepts(conf, {StoreAdd, UploadAdd})
               THEN Ok(op, content, "cid")
               ELSE Err(op, content, "Authorization-insufficient")

UploadFile ==
  \E file \in Files :
    /\ uploads < MaxUploads
    /\ UploadEffect("uploadFile", file)
    /\ UNCHANGED <<spaces, current, proofStore, delegStore, concVars, reg, selected>>

UploadDirectory ==
  \E file \in Files :
    /\ uploads < MaxUploads
    /\ UploadEffect("uploadDirectory", <<file>>)
    /\ UNCHANGED <<spaces, current, proofStore, delegStore, concVars, reg, selected>>

UploadCAR ==
  \E car \in Files :
    /\ uploads < MaxUploads
    /\ UploadEffect("uploadCAR", car)
    /\ UNCHANGED <<spaces, current, proofStore, delegStore, concVars, reg, selected>>

\* ---------------------------------------------------------------------------
\* setCurrentSpace and currentSpace() interleaved: a call is in flight from
\* the moment the caller makes it until its promise settles
\* ---------------------------------------------------------------------------
Last(seq) == seq[Len(seq)]

\* setCurrentSpace(did) is called: the agent's setCurrentSpace starts
SetCurrentSpaceCall(c) ==
  \E did \in SpaceDIDs \cup {NeverDID} :
    /\ pc[c] = "idle"
    /\ pc' = [pc EXCEPT ![c] = "called"]
    /\ arg' = [arg EXCEPT ![c] = did]
    /\ UNCHANGED <<spaces, current, proofStore, delegStore, uploads, ret, applied,
                   completed, reg, selected>>

\* the agent checks the DID and writes the pointer, or rejects
Agent_setCurrentSpaceApply(c) ==
  /\ pc[c] = "called"
  /\ IF Agent_setCurrentSpaceOk(arg[c])
     THEN /\ current' = arg[c]
          /\ applied' = Append(applied, arg[c])
          /\ pc' = [pc EXCEPT ![c] = "resolved"]
     ELSE /\ pc' = [pc EXCEPT ![c] = "rejected"]
          /\ UNCHANGED <<current, applied>>
  /\ UNCHANGED <<spaces, proofStore, delegStore, uploads, ret, arg, completed, reg, selected>>

\* the await of the agent's promise resumes and the caller's promise settles
SetCurrentSpaceReturn(c) ==
  /\ pc[c] \in {"resolved", "rejected"}
  /\ pc' = [pc EXCEPT ![c] = IF pc[c] = "resolved" THEN "done" ELSE "failed"]
  /\ completed' = IF pc[c] = "resolved" THEN Append(completed, arg[c]) ELSE completed
  /\ UNCHANGED <<spaces, current, proofStore, delegStore, uploads, ret, arg, applied,
                 reg, selected>>

\* currentSpace() called while setCurrentSpace calls are in flight; the
\* argument slot records how many writes had been applied at the call
CurrentSpaceRead ==
  /\ ret' = Ok("currentSpace", [seen |-> Len(applied)], currentSpace)
  /\ UNCHANGED <<spaces, current, proofStore, delegStore, uploads, concVars, reg, selected>>

\* ---------------------------------------------------------------------------
\* registerSpace(email, options): voucher redemption, wait for the claim
\* notification, claim with a full-space delegation to the service
\* ---------------------------------------------------------------------------
Emails == {"a@b.com"}

\* the options the agent receives: await agent.registerSpace(email, options)
registerSpaceOptions_dropped(options) == [signal |-> FALSE]

registerSpaceOptions(options) == options

\* registerSpace(email, options) is called for the current space
RegisterSpace ==
  \E email \in Emails : \E withSignal \in BOOLEAN : \E preAborted \in BOOLEAN :
    /\ reg.pc = "idle"
    /\ current # Undefined
    /\ preAborted => withSignal
    /\ reg' = [reg EXCEPT !.pc = "redeeming", !.space = current,
                           !.callerSignal = withSignal,
                           !.agentSignal = registerSpaceOptions([signal |-> withSignal]).signal,
                           !.aborted = preAborted, !.abortedFirst = preAborted]
    /\ UNCHANGED <<spaces, current, proofStore, delegStore, uploads, ret, concVars, selected>>

\* step (a) done: the redemption was invoked and the agent starts waiting for
\* the claim; a wait under a cancelled signal is aborted at once
Agent_voucherRedeemed ==
  /\ reg.pc = "redeeming"
  /\ reg' = [reg EXCEPT !.pc = IF reg.agentSignal /\ reg.aborted THEN "aborting" ELSE "waiting"]
  /\ UNCHANGED <<spaces, current, proofStore, delegStore, uploads, ret, concVars, selected>>

\* the service pushes the claim notification
ClaimArrives ==
  /\ reg.pc \in {"waiting", "aborting", "done"}
  /\ ~reg.claim
  /\ reg' = [reg EXCEPT !.claim = TRUE,
                         !.pc = IF reg.pc = "waiting" THEN "claiming" ELSE reg.pc]
  /\ UNCHANGED <<spaces, current, proofStore, delegStore, uploads, ret, concVars, selected>>

\* the caller cancels its signal
Abort ==
  /\ reg.pc \in {"redeeming", "waiting", "claiming"}
  /\ reg.callerSignal
  /\ ~reg.aborted
  /\ reg' = [reg EXCEPT !.aborted = TRUE,
                         !.abortedFirst = ~reg.claim,
                         !.pc = IF reg.pc = "waiting" /\ reg.agentSignal
                                THEN "aborting" ELSE reg.pc]
  /\ UNCHANGED <<spaces, current, proofStore, delegStore, uploads, ret, concVars, selected>>

\* the aborted wait rejects and the call fails as cancelled
RegisterCancelled ==
  /\ reg.pc = "aborting"
  /\ reg' = [reg EXCEPT !.pc = "done", !.outcome = "Cancelled"]
  /\ ret' = Err("registerSpace", reg.space, "Cancelled")
  /\ UNCHANGED <<spaces, current, proofStore, delegStore, uploads, concVars, selected>>

\* step (b) done: the claim is invoked with a full delegation of the space
\* to the service
RegisterClaimed ==
  /\ reg.pc = "claiming"
  /\ reg' = [reg EXCEPT !.pc = "done", !.outcome = "ok", !.granted = TRUE]
  /\ ret' = Ok("registerSpace", reg.space, Undefined)
  /\ UNCHANGED <<spaces, current, proofStore, delegStore, uploads, concVars, selected>>

\* ---------------------------------------------------------------------------
\* Specifications
\* ---------------------------------------------------------------------------
\* space management
Next ==
  \/ Agent
  \/ CurrentSpace
  \/ SetCurrentSpace
  \/ Spaces
  \/ CreateSpace
  \/ AddSpace

Spec == Init /\ [][Next]_vars

\* proof bookkeeping
NextProofs ==
  \/ AddProof
  \/ Proofs

SpecProofs == Init /\ [][NextProofs]_vars

\* uploads through the pipeline
NextUpload ==
  \/ CreateSpace
  \/ SetCurrentSpace
  \/ AddProof
  \/ UploadFile
  \/ UploadDirectory
  \/ UploadCAR

SpecUpload == Init /\ [][NextUpload]_vars

\* delegations issued to others
NextDeleg ==
  \/ CreateSpace
  \/ SetCurrentSpace
  \/ CreateDelegation
  \/ Delegations

SpecDeleg == Init /\ [][NextDeleg]_vars

\* interleaved setCurrentSpace / currentSpace() calls
NextConc ==
  \/ CreateSpace
  \/ \E c \in Callers : SetCurrentSpaceCall(c)
  \/ \E c \in Callers : Agent_setCurrentSpaceApply(c)
  \/ \E c \in Callers : SetCurrentSpaceReturn(c)
  \/ CurrentSpaceRead

SpecConc == Init /\ [][NextConc]_vars

\* registration of the current space
NextReg ==
  \/ CreateSpace
  \/ SetCurrentSpace
  \/ RegisterSpace
  \/ Agent_voucherRedeemed
  \/ ClaimArrives
  \/ Abort
  \/ RegisterCancelled
  \/ RegisterClaimed

SpecReg == Init /\ [][NextReg]_vars

\* settled promises are resumed by the event loop and the redemption
\* invocation returns; the claim notification and the cancellation are
\* external events with no fairness
FairSpecReg ==
  /\ SpecReg
  /\ WF_vars(Agent_voucherRedeemed)
  /\ WF_vars(RegisterCancelled)
  /\ WF_vars(RegisterClaimed)

\* ---------------------------------------------------------------------------
\* Properties
\* ---------------------------------------------------------------------------
\* C1: setCurrentSpace(d) with a DID d that is not in the agent's space
\* registry fails with Unknown-space and leaves the current-space pointer as
\* it was before the call.
C1_UnknownSpaceRejected ==
  [][(ret'.op = "setCurrentSpace" /\ ret'.arg \notin DOMAIN spaces)
       => (ret'.status = "error" /\ ret'.error = "Unknown-space" /\ current' = current)]_vars

C1_Witness ==
  /\ ret.op = "setCurrentSpace"
  /\ ret.arg \notin DOMAIN spaces
  /\ ret.status = "error"
  /\ current \in DOMAIN spaces

\* C2: currentSpace() returns the wrapper of the DID of the last successful
\* setCurrentSpace call, carrying the registry's metadata for it (so the name
\* given to createSpace), and returns undefined when no space was ever
\* selected.
C2_CurrentSpaceIsSelected ==
  /\ ret.op = "currentSpace" /\ selected = Undefined => ret.value = NoSpace
  /\ ret.op = "currentSpace" /\ selected # Undefined =>
        /\ ret.value.kind = "space"
        /\ ret.value.did = selected
        /\ ret.value.meta = spaces[selected]
        /\ ret.value.name = spaces[selected].name
  /\ ret.op = "createSpace" =>
        /\ ret.value.did \in DOMAIN spaces
        /\ spaces[ret.value.did].name = ret.arg

C2_Witness ==
  /\ ret.op = "currentSpace"
  /\ selected # Undefined
  /\ ret.value.name = "docs"

\* C6: createSpace(name) adds the new space to the registry and returns its
\* wrapper, and currentSpace() gives the same result after it as before it.
C6_CreateSpaceKeepsCurrent ==
  [][ret'.op = "createSpace"
       => /\ current' = current
          /\ currentSpace' = currentSpace
          /\ ret'.value.did \notin DOMAIN spaces
          /\ ret'.value \in spacesList']_vars

C6_Witness ==
  /\ ret.op = "createSpace"
  /\ current # Undefined
  /\ ret.value.did # current

\* C3: addProof(p) with a delegation whose audience is not this agent fails
\* with Audience-mismatch and the agent's proof set, and so the result of
\* proofs(), is the same after the call as before it.
C3_AudienceMismatchRejected ==
  [][(ret'.op = "addProof" /\ ret'.arg.aud # AgentDID)
       => /\ ret'.status = "error"
          /\ ret'.error = "Audience-mismatch"
          /\ proofStore' = proofStore
          /\ proofs(NoCaps)' = proofs(NoCaps)]_vars

C3_Witness ==
  /\ ret.op = "addProof"
  /\ ret.arg.aud = OtherDID
  /\ ret.status = "error"
  /\ proofStore # {}

\* C9: proofs(C) is a subset of proofs(); with a non-empty C every returned
\* delegation authorizes some capability of C; every returned delegation is
\* addressed to this agent; with C empty or absent it equals proofs().
C9_ProofsFiltered ==
  ret.op = "proofs" =>
    /\ ret.value \subseteq proofs(NoCaps)
    /\ \A p \in ret.value : p.aud = AgentDID
    /\ (ret.arg.given /\ ret.arg.caps # {}) =>
          \A p \in ret.value : \E cap \in ret.arg.caps : Authorizes(p, cap)
    /\ (~ret.arg.given \/ ret.arg.caps = {}) => ret.value = proofs(NoCaps)

C9_Witness ==
  /\ ret.op = "proofs"
  /\ ret.arg.given
  /\ ret.arg.caps # {}
  /\ ret.value # {}
  /\ ret.value # proofs(NoCaps)

\* the agent holds proofs for store/add and upload/add over the current space
HoldsUploadProofs ==
  \A a \in {StoreAdd, UploadAdd} :
    \E p \in proofStore : p.aud = AgentDID /\ Authorizes(p, [can |-> a, with |-> current])

\* C8: uploadFile called without proofs authorizing {store/add, upload/add}
\* is not failed locally: the pipeline invocation is attempted and the call
\* fails with the remote Authorization-insufficient error.
C8_UploadNotPrechecked ==
  [][(ret'.op = "uploadFile" /\ ~HoldsUploadProofs)
       => /\ uploads' = uploads + 1
          /\ ret'.status = "error"
          /\ ret'.error = "Authorization-insufficient"]_vars

C8_Witness ==
  /\ ret.op = "uploadFile"
  /\ ret.error = "Authorization-insufficient"
  /\ proofStore = {}
  /\ uploads > 0

\* C7: createDelegation without an audienceMeta override returns a wrapper
\* with audience metadata {name: "agent", type: "device"}, with an override
\* the override; the following delegations() includes a wrapper of that
\* delegation with the same audience metadata.
C7_DefaultAudienceMeta ==
  ret.op = "createDelegation" =>
    LET expected == IF ret.arg.audienceMeta = NoAudienceMeta
                    THEN [name |-> "agent", type |-> "device"]
                    ELSE ret.arg.audienceMeta
    IN /\ ret.value.meta.audience = expected
       /\ \E w \in delegations(NoCaps) :
             w.root = ret.value.root /\ w.meta.audience = expected

C7_Witness ==
  /\ ret.op = "createDelegation"
  /\ ret.arg.audienceMeta = NoAudienceMeta
  /\ ret.value.meta.audience = [name |-> "agent", type |-> "device"]
  /\ ret.value \in delegations(NoCaps)

\* every caller's setCurrentSpace call, if made, has settled
AllSettled == \A c \in Callers : pc[c] \in {"idle", "done", "failed"}

\* a currentSpace() result is the wrapper of the pointer as the writes applied
\* so far left it: undefined before any write, else a requested DID with the
\* registry's metadata of that DID
ReadSeesAppliedWrite ==
  ret.op = "currentSpace" =>
    IF ret.arg.seen = 0 THEN ret.value = NoSpace
    ELSE LET did == applied[ret.arg.seen]
         IN /\ did \in {arg[c] : c \in Callers}
            /\ ret.value = Space(did, spaces[did])

C4_CancelledBeforeClaim ==
  reg.abortedFirst =>
    /\ ~reg.granted
    /\ reg.pc # "claiming"
    /\ reg.pc = "done" => reg.outcome = "Cancelled"

C4_Witness ==
  /\ reg.abortedFirst
  /\ reg.claim
  /\ reg.pc = "done"
  /\ reg.outcome = "Cancelled"
  /\ ~reg.granted

\* C5: a registerSpace call in flight whose cancellation signal has been
\* triggered eventually completes, even if the claim notification is never
\* delivered.
C5_CancelCompletes ==
  (reg.pc \in {"redeeming", "waiting", "aborting", "claiming"} /\ reg.aborted)
    ~> (reg.pc = "done")

C5_Witness ==
  /\ reg.pc = "done"
  /\ reg.aborted
  /\ reg.outcome = "Cancelled"
  /\ ~reg.claim
====
